---- MODULE Spec2Model ----
(***************************************************************************)
(* The CloudCanary Terraform provider: the persisted state of an HTTP      *)
(* check and of an API check under the resource handlers Create, Read,     *)
(* Update, Delete and ImportState, and the client the handlers call.       *)
(*                                                                         *)
(* A framework attribute value (types.String, types.Int64, ...) is a       *)
(* record [st, v]: st is "null", "unknown" or "known", and v is the Go     *)
(* value, which is the zero value of the type unless st = "known" (so v    *)
(* is what ValueString()/ValueInt64() return).                             *)
(***************************************************************************)
EXTENDS Integers, Sequences, FiniteSets, TLC

VARIABLES
    tfstate,   \* resource -> [exists, rec]: the state Terraform persists
    now,       \* the wall clock, in ticks of TickNanos nanoseconds
    nops,      \* handler invocations so far (bounded by MaxOps)
    last,      \* the last handler invocation: its inputs and its outcome
    created,   \* resource -> [ok, id]: the identity its Create assigned
    config,    \* resource -> [ok, rec]: the configuration last applied to it
    results    \* [exists, rec]: the persisted state of the check_results data source

vars == <<tfstate, now, nops, last, created, config, results>>

-----------------------------------------------------------------------------
(* Bounds of the model *)

MaxOps == 3

MaxTime == 1

TickNanos == 1000000000

\* The largest limit a check_results configuration asks for
MaxLimit == 4

-----------------------------------------------------------------------------
(* Attribute values *)

StrNull == [st |-> "null", v |-> ""]

StrUnknown == [st |-> "unknown", v |-> ""]

IntNull == [st |-> "null", v |-> 0]

BoolNull == [st |-> "null", v |-> FALSE]

ListNull == [st |-> "null", v |-> <<>>]

MapNull == [st |-> "null", v |-> {}]

Val(x) == [st |-> "known", v |-> x]

IsNull(a) == a.st = "null"

Resources == {"http_check", "api_check"}

Kind(r) == IF r = "http_check" THEN "http" ELSE "api"

\* var plan HTTPCheck / var state HTTPCheck: the zero value of every field is null
ZeroHTTPCheck ==
    [id |-> StrNull, name |-> StrNull, url |-> StrNull, method |-> StrNull,
     headers |-> MapNull, body |-> StrNull, expected_status |-> IntNull,
     expected_response |-> StrNull, interval |-> IntNull, timeout |-> IntNull,
     follow_redirects |-> BoolNull, regions |-> ListNull, retries |-> IntNull,
     last_result |-> StrNull, last_check_time |-> StrNull]

ZeroAPICheck ==
    [id |-> StrNull, name |-> StrNull, endpoint |-> StrNull, method |-> StrNull,
     headers |-> MapNull, body |-> StrNull, expected_status |-> IntNull,
     response_validation |-> ListNull, interval |-> IntNull, timeout |-> IntNull,
     auth_type |-> StrNull, auth_value |-> StrNull,
     last_result |-> StrNull, last_check_time |-> StrNull]

Zero(kind) == IF kind = "http" THEN ZeroHTTPCheck ELSE ZeroAPICheck

\* var config CheckResultsDataModel: every field null, no results
ZeroCheckResults ==
    [id |-> StrNull, check_id |-> StrNull, limit |-> IntNull,
     start_time |-> StrNull, end_time |-> StrNull, results |-> <<>>]

NoResults == [exists |-> FALSE, rec |-> ZeroCheckResults]

-----------------------------------------------------------------------------
(* Time and formatting *)

\* time.Now().UnixNano() at clock reading t
UnixNano(t) == t * TickNanos

\* time.Now().Format(time.RFC3339): the time to the second, sub-second part dropped
RFC3339(t) ==
    LET sec == UnixNano(t) \div (1000 * 1000 * 1000)
    IN  "1970-01-01T00:00:" \o (IF sec < 10 THEN "0" ELSE "") \o ToString(sec) \o "Z"

\* time.Now().Unix() at clock reading t
Unix(t) == UnixNano(t) \div (1000 * 1000 * 1000)

TwoDigits(n) == (IF n < 10 THEN "0" ELSE "") \o ToString(n)

\* time.Now().Add(-time.Duration(i) * time.Hour).Format(time.RFC3339) at clock
\* reading t: the clock starts at 1970-01-01T00:00:00Z, and i hours before
\* that is on one of the last days of December 1969
HoursAgoRFC3339(t, i) ==
    LET sec == Unix(t) - 3600 * i
        day == IF sec >= 0 THEN sec \div 86400 ELSE -((86399 - sec) \div 86400)
        rem == sec - 86400 * day
        date == IF day >= 0 THEN "1970-01-" \o TwoDigits(day + 1)
                ELSE "1969-12-" \o TwoDigits(32 + day)
    IN  date \o "T" \o TwoDigits(rem \div 3600) \o ":" \o
        TwoDigits((rem % 3600) \div 60) \o ":" \o TwoDigits(rem % 60) \o "Z"

\* fmt.Sprintf("%s-%s-%d", name, address, nanos): the digest's input
Seed(name, addr, t) == name \o "-" \o addr \o "-" \o ToString(UnixNano(t))

\* The names and addresses a check can be created with (the plans' universe)
NameSeq == <<"Site">>

AddrSeq == <<"https://x">>

\* Every digest input the model can form, in a fixed order
SeedSeq ==
    [k \in 1..(Len(NameSeq) * Len(AddrSeq) * (MaxTime + 1)) |->
        LET i == (k - 1) \div (Len(AddrSeq) * (MaxTime + 1))
            j == ((k - 1) \div (MaxTime + 1)) % Len(AddrSeq)
            t == (k - 1) % (MaxTime + 1)
        IN  Seed(NameSeq[i + 1], AddrSeq[j + 1], t)]

\* sha256.Sum256(input)[:8]: the digest is a fixed function of the input string.
\* It is modelled as an ideal hash over the inputs the model can form: equal
\* strings get equal bytes, different strings different bytes.
Sum256Prefix(input) ==
    LET known == {k \in 1..Len(SeedSeq) : SeedSeq[k] = input}
        n == IF known = {} THEN 0
             ELSE CHOOSE k \in known : \A m \in known : k <= m
    IN  [b \in 1..8 |-> (n * (2 * b + 29) + 17 * b) % 256]

HexDigit(d) ==
    <<"0", "1", "2", "3", "4", "5", "6", "7",
      "8", "9", "a", "b", "c", "d", "e", "f">>[d + 1]

\* HexByte as %x formats an integer: no leading zero
HexByte_Unpadded(b) ==
    IF b < 16 THEN HexDigit(b) ELSE HexDigit(b \div 16) \o HexDigit(b % 16)

\* %x of one byte: two lowercase hexadecimal digits
HexByte(b) == HexDigit(b \div 16) \o HexDigit(b % 16)

RECURSIVE HexBytes(_)
\* %x of a byte slice
HexBytes(bs) == IF bs = <<>> THEN "" ELSE HexByte(Head(bs)) \o HexBytes(Tail(bs))

-----------------------------------------------------------------------------
(* The client (client.go) *)

\* createHTTPCheck rejecting an unset name but not an empty one
createHTTPCheck_NullNameOnly(check, t) ==
    IF IsNull(check.name)
    THEN [err |-> TRUE, check |-> check]
    ELSE [err |-> FALSE,
          check |-> [check EXCEPT !.id =
              Val("hc-" \o HexBytes(Sum256Prefix(Seed(check.name.v, check.url.v, t))))]]

\* createHTTPCheck(ctx, check) called at clock reading t: [err, check]
createHTTPCheck(check, t) ==
    IF IsNull(check.name) \/ check.name.v = ""
    THEN [err |-> TRUE, check |-> check]
    ELSE [err |-> FALSE,
          check |-> [check EXCEPT !.id =
              Val("hc-" \o HexBytes(Sum256Prefix(Seed(check.name.v, check.url.v, t))))]]

\* createAPICheck(ctx, check) called at clock reading t: [err, check]
createAPICheck(check, t) ==
    IF IsNull(check.name) \/ check.name.v = ""
    THEN [err |-> TRUE, check |-> check]
    ELSE [err |-> FALSE,
          check |-> [check EXCEPT !.id =
              Val("ac-" \o HexBytes(Sum256Prefix(Seed(check.name.v, check.endpoint.v, t))))]]

\* readHTTPCheck answering with a canned identity instead of the one asked for
readHTTPCheck_CannedID(id, t) ==
    IF id = ""
    THEN [err |-> TRUE, check |-> ZeroHTTPCheck]
    ELSE [err |-> FALSE,
          check |-> [id |-> Val("hc-12345678"),
                     name |-> Val("Retrieved check " \o id),
                     url |-> Val("https://example.com"),
                     method |-> Val("GET"),
                     expected_status |-> Val(200),
                     interval |-> Val(60),
                     timeout |-> Val(5),
                     follow_redirects |-> Val(TRUE),
                     regions |-> Val(<<"us-east-1", "eu-west-1">>),
                     retries |-> Val(2),
                     headers |-> Val({<<"User-Agent", "CloudCanary">>}),
                     body |-> StrNull,
                     expected_response |-> StrNull,
                     last_result |-> Val("SUCCESS"),
                     last_check_time |-> Val(RFC3339(t))]]

\* readHTTPCheck(ctx, id) called at clock reading t: [err, check]
readHTTPCheck(id, t) ==
    IF id = ""
    THEN [err |-> TRUE, check |-> ZeroHTTPCheck]
    ELSE [err |-> FALSE,
          check |-> [id |-> Val(id),
                     name |-> Val("Retrieved check " \o id),
                     url |-> Val("https://example.com"),
                     method |-> Val("GET"),
                     expected_status |-> Val(200),
                     interval |-> Val(60),
                     timeout |-> Val(5),
                     follow_redirects |-> Val(TRUE),
                     regions |-> Val(<<"us-east-1", "eu-west-1">>),
                     retries |-> Val(2),
                     headers |-> Val({<<"User-Agent", "CloudCanary">>}),
                     body |-> StrNull,
                     expected_response |-> StrNull,
                     last_result |-> Val("SUCCESS"),
                     last_check_time |-> Val(RFC3339(t))]]

\* readAPICheck(ctx, id) called at clock reading t: [err, check]
readAPICheck(id, t) ==
    IF id = ""
    THEN [err |-> TRUE, check |-> ZeroAPICheck]
    ELSE [err |-> FALSE,
          check |-> [id |-> Val(id),
                     name |-> Val("Retrieved API check " \o id),
                     endpoint |-> Val("https://api.example.com/v1/status"),
                     method |-> Val("POST"),
                     headers |-> Val({<<"Content-Type", "application/json">>}),
                     body |-> StrNull,
                     expected_status |-> Val(200),
                     response_validation |->
                         Val(<<"$.status == 'up'", "$.version != null">>),
                     interval |-> Val(300),
                     timeout |-> Val(10),
                     auth_type |-> Val("bearer"),
                     auth_value |-> StrNull,
                     last_result |-> Val("SUCCESS"),
                     last_check_time |-> Val(RFC3339(t))]]

\* updateHTTPCheck rejecting an unset identity but not an empty one
updateHTTPCheck_UnsetOnly(check) == IsNull(check.id)

\* updateHTTPCheck(ctx, check): TRUE iff it returns an error
updateHTTPCheck(check) == IsNull(check.id) \/ check.id.v = ""

\* updateAPICheck(ctx, check): TRUE iff it returns an error
updateAPICheck(check) == IsNull(check.id) \/ check.id.v = ""

\* deleteHTTPCheck(ctx, id): TRUE iff it returns an error
deleteHTTPCheck(id) == id = ""

\* deleteAPICheck(ctx, id): TRUE iff it returns an error
deleteAPICheck(id) == id = ""

\* CheckResult failing every other index, with the success time throughout
CheckResult_EveryOther(id, i, t) ==
    [id |-> Val("res-" \o id \o "-" \o ToString(i)),
     check_id |-> Val(id),
     status |-> Val(IF i % 2 = 0 THEN "FAILURE" ELSE "SUCCESS"),
     response_time |-> Val(100 + (i * 10)),
     message |-> Val(IF i % 2 = 0 THEN "Timeout waiting for response"
                     ELSE "Check completed successfully"),
     timestamp |-> Val(HoursAgoRFC3339(t, i)),
     region |-> StrNull, response_body |-> StrNull,
     response_code |-> IntNull, failure_reason |-> StrNull]

\* CheckResult with the time of the call in the record's identity as well
CheckResult_StampedID(id, i, t) ==
    [id |-> Val("res-" \o id \o "-" \o ToString(i) \o "-" \o ToString(Unix(t))),
     check_id |-> Val(id),
     status |-> Val(IF i % 3 = 0 THEN "FAILURE" ELSE "SUCCESS"),
     response_time |-> Val(IF i % 3 = 0 THEN 500 + (i * 20) ELSE 100 + (i * 10)),
     message |-> Val(IF i % 3 = 0 THEN "Timeout waiting for response"
                     ELSE "Check completed successfully"),
     timestamp |-> Val(HoursAgoRFC3339(t, i)),
     region |-> StrNull, response_body |-> StrNull,
     response_code |-> IntNull, failure_reason |-> StrNull]

\* CheckResult with empty values, not nulls, in the optional fields
CheckResult_EmptyOptionals(id, i, t) ==
    [id |-> Val("res-" \o id \o "-" \o ToString(i)),
     check_id |-> Val(id),
     status |-> Val(IF i % 3 = 0 THEN "FAILURE" ELSE "SUCCESS"),
     response_time |-> Val(IF i % 3 = 0 THEN 500 + (i * 20) ELSE 100 + (i * 10)),
     message |-> Val(IF i % 3 = 0 THEN "Timeout waiting for response"
                     ELSE "Check completed successfully"),
     timestamp |-> Val(HoursAgoRFC3339(t, i)),
     region |-> Val(""), response_body |-> Val(""),
     response_code |-> Val(0), failure_reason |-> Val("")]

\* The CheckResult that getCheckResults appends for index i
CheckResult(id, i, t) ==
    [id |-> Val("res-" \o id \o "-" \o ToString(i)),
     check_id |-> Val(id),
     status |-> Val(IF i % 3 = 0 THEN "FAILURE" ELSE "SUCCESS"),
     response_time |-> Val(IF i % 3 = 0 THEN 500 + (i * 20) ELSE 100 + (i * 10)),
     message |-> Val(IF i % 3 = 0 THEN "Timeout waiting for response"
                     ELSE "Check completed successfully"),
     timestamp |-> Val(HoursAgoRFC3339(t, i)),
     region |-> StrNull, response_body |-> StrNull,
     response_code |-> IntNull, failure_reason |-> StrNull]

\* getCheckResults(ctx, id, limit) called at clock reading t: [err, panic,
\* results].  make([]CheckResult, 0, limit) panics for a negative limit.
getCheckResults(id, limit, t) ==
    IF id = "" THEN [err |-> TRUE, panic |-> FALSE, results |-> <<>>]
    ELSE IF limit < 0 THEN [err |-> FALSE, panic |-> TRUE, results |-> <<>>]
    ELSE [err |-> FALSE, panic |-> FALSE,
          results |-> [k \in 1..limit |-> CheckResult(id, k - 1, t)]]

-----------------------------------------------------------------------------
(* The HTTP check resource.  A handler is given the client's answer to the  *)
(* call it makes, and its outcome is [err, set, rec, sent]: err: it added   *)
(* an error diagnostic; set: it called resp.State.Set; rec: the value it    *)
(* set; sent: the record it handed to the client.                           *)

\* HTTPDraft as a copy of the whole plan, with the README's default method
HTTPDraft_PlanWithDefaults(plan) ==
    [plan EXCEPT !.method = IF IsNull(@) THEN Val("GET") ELSE @]

\* Create: the working copy built from the plan
HTTPDraft(plan) ==
    [ZeroHTTPCheck EXCEPT
        !.name = plan.name, !.url = plan.url,
        !.method = plan.method, !.headers = plan.headers, !.body = plan.body,
        !.expected_status = plan.expected_status,
        !.expected_response = plan.expected_response,
        !.interval = plan.interval, !.timeout = plan.timeout,
        !.follow_redirects = plan.follow_redirects,
        !.regions = plan.regions, !.retries = plan.retries]

\* HTTPCreated with the README's default method substituted for an unset one
HTTPCreated_Defaulted(plan, apiCheck, t) ==
    [plan EXCEPT !.id = apiCheck.id,
                 !.method = IF IsNull(@) THEN Val("GET") ELSE @,
                 !.last_result = Val("PENDING"),
                 !.last_check_time = Val(RFC3339(t))]

\* HTTPCreated persisting the working copy the client filled, not the plan
HTTPCreated_FromDraft(plan, apiCheck, t) ==
    [apiCheck EXCEPT !.last_check_time = Val(RFC3339(t))]

\* Create: the plan completed with the computed fields, as persisted
HTTPCreated(plan, apiCheck, t) ==
    [plan EXCEPT !.id = apiCheck.id,
                 !.last_result = Val("PENDING"),
                 !.last_check_time = Val(RFC3339(t))]

\* httpCheckResource.Create, given the client's answer r = [err, check] to
\* the draft, with time.Now() = t
HTTPCreate(plan, r, t) ==
    IF r.err
    THEN [err |-> TRUE, set |-> FALSE, rec |-> plan, sent |-> HTTPDraft(plan)]
    ELSE [err |-> FALSE, set |-> TRUE,
          rec |-> HTTPCreated(plan, r.check, t), sent |-> HTTPDraft(plan)]

\* HTTPReadDeclared copying body without the null check
HTTPReadDeclared_BodyClobbered(state, apiCheck) ==
    [state EXCEPT
        !.id = IF ~IsNull(apiCheck.id) THEN apiCheck.id ELSE @,
        !.name = IF ~IsNull(apiCheck.name) THEN apiCheck.name ELSE @,
        !.url = IF ~IsNull(apiCheck.url) THEN apiCheck.url ELSE @,
        !.method = IF ~IsNull(apiCheck.method) THEN apiCheck.method ELSE @,
        !.headers = IF ~IsNull(apiCheck.headers) THEN apiCheck.headers ELSE @,
        !.body = apiCheck.body,
        !.expected_status =
            IF ~IsNull(apiCheck.expected_status) THEN apiCheck.expected_status ELSE @,
        !.expected_response =
            IF ~IsNull(apiCheck.expected_response) THEN apiCheck.expected_response ELSE @,
        !.interval = IF ~IsNull(apiCheck.interval) THEN apiCheck.interval ELSE @,
        !.timeout = IF ~IsNull(apiCheck.timeout) THEN apiCheck.timeout ELSE @,
        !.follow_redirects =
            IF ~IsNull(apiCheck.follow_redirects) THEN apiCheck.follow_redirects ELSE @,
        !.regions = IF ~IsNull(apiCheck.regions) THEN apiCheck.regions ELSE @,
        !.retries = IF ~IsNull(apiCheck.retries) THEN apiCheck.retries ELSE @]

\* Read: the declared fields and the identity, non-null fetched values copied
HTTPReadDeclared(state, apiCheck) ==
    [state EXCEPT
        !.id = IF ~IsNull(apiCheck.id) THEN apiCheck.id ELSE @,
        !.name = IF ~IsNull(apiCheck.name) THEN apiCheck.name ELSE @,
        !.url = IF ~IsNull(apiCheck.url) THEN apiCheck.url ELSE @,
        !.method = IF ~IsNull(apiCheck.method) THEN apiCheck.method ELSE @,
        !.headers = IF ~IsNull(apiCheck.headers) THEN apiCheck.headers ELSE @,
        !.body = IF ~IsNull(apiCheck.body) THEN apiCheck.body ELSE @,
        !.expected_status =
            IF ~IsNull(apiCheck.expected_status) THEN apiCheck.expected_status ELSE @,
        !.expected_response =
            IF ~IsNull(apiCheck.expected_response) THEN apiCheck.expected_response ELSE @,
        !.interval = IF ~IsNull(apiCheck.interval) THEN apiCheck.interval ELSE @,
        !.timeout = IF ~IsNull(apiCheck.timeout) THEN apiCheck.timeout ELSE @,
        !.follow_redirects =
            IF ~IsNull(apiCheck.follow_redirects) THEN apiCheck.follow_redirects ELSE @,
        !.regions = IF ~IsNull(apiCheck.regions) THEN apiCheck.regions ELSE @,
        !.retries = IF ~IsNull(apiCheck.retries) THEN apiCheck.retries ELSE @]

\* HTTPReadComputed keeping the persisted value when the fetched one is null
HTTPReadComputed_NullKept(state, apiCheck) ==
    [state EXCEPT
        !.last_result = IF ~IsNull(apiCheck.last_result) THEN apiCheck.last_result ELSE @,
        !.last_check_time =
            IF ~IsNull(apiCheck.last_check_time) THEN apiCheck.last_check_time ELSE @]

\* Read: "Always update computed fields"
HTTPReadComputed(state, apiCheck) ==
    [state EXCEPT !.last_result = apiCheck.last_result,
                  !.last_check_time = apiCheck.last_check_time]

\* HTTPReadMerge with a slip in the method assignment: the state's body is
\* copied into method before body itself is refreshed
HTTPReadMerge_StaleCopy(state, apiCheck) ==
    LET merged == HTTPReadComputed(HTTPReadDeclared(state, apiCheck), apiCheck)
    IN  [merged EXCEPT !.method = IF ~IsNull(apiCheck.method) THEN state.body ELSE @]

\* Read: the state merged with the fetched record
HTTPReadMerge(state, apiCheck) ==
    HTTPReadComputed(HTTPReadDeclared(state, apiCheck), apiCheck)

\* httpCheckResource.Read, given the client's answer r = [err, check]
HTTPRead(state, r) ==
    IF r.err
    THEN [err |-> TRUE, set |-> FALSE, rec |-> state, sent |-> state]
    ELSE [err |-> FALSE, set |-> TRUE,
          rec |-> HTTPReadMerge(state, r.check), sent |-> state]

\* HTTPUpdateRecord without the identity carried over from state
HTTPUpdateRecord_PlanID(plan, state) == plan

\* HTTPUpdateRecord keeping the state's value where the plan has none
HTTPUpdateRecord_Merged(plan, state) ==
    [f \in DOMAIN plan |->
        IF f = "id" \/ IsNull(plan[f]) THEN state[f] ELSE plan[f]]

\* Update: "Preserve the ID from state"
HTTPUpdateRecord(plan, state) == [plan EXCEPT !.id = state.id]

\* Update: "Update computed fields"
HTTPUpdated(record, t) == [record EXCEPT !.last_check_time = Val(RFC3339(t))]

\* HTTPUpdate setting the state before it looks at the client's error
HTTPUpdate_SetFirst(plan, state, failed, t) ==
    LET record == HTTPUpdateRecord(plan, state)
    IN  [err |-> failed, set |-> TRUE, rec |-> HTTPUpdated(record, t), sent |-> record]

\* httpCheckResource.Update, given whether the client's update of the
\* record failed, with time.Now() = t
HTTPUpdate(plan, state, failed, t) ==
    LET record == HTTPUpdateRecord(plan, state)
    IN  IF failed
        THEN [err |-> TRUE, set |-> FALSE, rec |-> record, sent |-> record]
        ELSE [err |-> FALSE, set |-> TRUE,
              rec |-> HTTPUpdated(record, t), sent |-> record]

\* HTTPDelete writing the record back with its identity cleared
HTTPDelete_KeepsRecord(state, failed) ==
    [err |-> failed, set |-> TRUE, rec |-> [state EXCEPT !.id = StrNull],
     sent |-> state]

\* httpCheckResource.Delete, given whether the client's delete failed: it
\* never sets state ("Terraform will remove the resource from state")
HTTPDelete(state, failed) ==
    [err |-> failed, set |-> FALSE, rec |-> state, sent |-> state]

-----------------------------------------------------------------------------
(* The API check resource (resource_api_check.go) *)

\* Create: the working copy built from the plan
APIDraft(plan) ==
    [ZeroAPICheck EXCEPT
        !.name = plan.name, !.endpoint = plan.endpoint,
        !.method = plan.method, !.headers = plan.headers, !.body = plan.body,
        !.expected_status = plan.expected_status,
        !.response_validation = plan.response_validation,
        !.interval = plan.interval, !.timeout = plan.timeout,
        !.auth_type = plan.auth_type, !.auth_value = plan.auth_value]

\* Create: the plan completed with the computed fields, as persisted
APICreated(plan, apiCheck, t) ==
    [plan EXCEPT !.id = apiCheck.id,
                 !.last_result = Val("PENDING"),
                 !.last_check_time = Val(RFC3339(t))]

\* apiCheckResource.Create, given the client's answer r = [err, check] to
\* the draft, with time.Now() = t
APICreate(plan, r, t) ==
    IF r.err
    THEN [err |-> TRUE, set |-> FALSE, rec |-> plan, sent |-> APIDraft(plan)]
    ELSE [err |-> FALSE, set |-> TRUE,
          rec |-> APICreated(plan, r.check, t), sent |-> APIDraft(plan)]

\* Read: the declared fields and the identity, non-null fetched values copied
APIReadDeclared(state, apiCheck) ==
    [state EXCEPT
        !.id = IF ~IsNull(apiCheck.id) THEN apiCheck.id ELSE @,
        !.name = IF ~IsNull(apiCheck.name) THEN apiCheck.name ELSE @,
        !.endpoint = IF ~IsNull(apiCheck.endpoint) THEN apiCheck.endpoint ELSE @,
        !.method = IF ~IsNull(apiCheck.method) THEN apiCheck.method ELSE @,
        !.headers = IF ~IsNull(apiCheck.headers) THEN apiCheck.headers ELSE @,
        !.body = IF ~IsNull(apiCheck.body) THEN apiCheck.body ELSE @,
        !.expected_status =
            IF ~IsNull(apiCheck.expected_status) THEN apiCheck.expected_status ELSE @,
        !.response_validation =
            IF ~IsNull(apiCheck.response_validation)
            THEN apiCheck.response_validation ELSE @,
        !.interval = IF ~IsNull(apiCheck.interval) THEN apiCheck.interval ELSE @,
        !.timeout = IF ~IsNull(apiCheck.timeout) THEN apiCheck.timeout ELSE @,
        !.auth_type = IF ~IsNull(apiCheck.auth_type) THEN apiCheck.auth_type ELSE @]

\* APIReadSensitive treating auth_value like any other attribute
APIReadSensitive_Unguarded(state, apiCheck) ==
    [state EXCEPT !.auth_value =
        IF ~IsNull(apiCheck.auth_value) THEN apiCheck.auth_value ELSE @]

\* Read: "Only update auth_value if the new value isn't null AND the state
\* value is null"
APIReadSensitive(state, apiCheck) ==
    [state EXCEPT !.auth_value =
        IF ~IsNull(apiCheck.auth_value) /\ IsNull(state.auth_value)
        THEN apiCheck.auth_value ELSE @]

\* Read: "Always update computed fields"
APIReadComputed(state, apiCheck) ==
    [state EXCEPT !.last_result = apiCheck.last_result,
                  !.last_check_time = apiCheck.last_check_time]

\* Read: the state merged with the fetched record
APIReadMerge(state, apiCheck) ==
    APIReadComputed(
        APIReadSensitive(APIReadDeclared(state, apiCheck), apiCheck), apiCheck)

\* apiCheckResource.Read, given the client's answer r = [err, check]
APIRead(state, r) ==
    IF r.err
    THEN [err |-> TRUE, set |-> FALSE, rec |-> state, sent |-> state]
    ELSE [err |-> FALSE, set |-> TRUE,
          rec |-> APIReadMerge(state, r.check), sent |-> state]

\* Update: "Preserve the ID from state"
APIUpdateRecord(plan, state) == [plan EXCEPT !.id = state.id]

\* Update: "Update computed fields"
APIUpdated(record, t) == [record EXCEPT !.last_check_time = Val(RFC3339(t))]

\* apiCheckResource.Update, given whether the client's update of the
\* record failed, with time.Now() = t
APIUpdate(plan, state, failed, t) ==
    LET record == APIUpdateRecord(plan, state)
    IN  IF failed
        THEN [err |-> TRUE, set |-> FALSE, rec |-> record, sent |-> record]
        ELSE [err |-> FALSE, set |-> TRUE,
              rec |-> APIUpdated(record, t), sent |-> record]

\* apiCheckResource.Delete, given whether the client's delete failed: it
\* never sets state ("Terraform will remove the resource from state")
APIDelete(state, failed) ==
    [err |-> failed, set |-> FALSE, rec |-> state, sent |-> state]

\* ImportState: resource.ImportStatePassthroughID sets only the id attribute
ImportedState(kind, id) == [Zero(kind) EXCEPT !.id = Val(id)]

-----------------------------------------------------------------------------
(* The check_results data source (datasource_check_results.go) *)

\* ResultsLimit without the default: the Go value of an unset limit is 0
ResultsLimit_NoDefault(cfg) == cfg.limit.v

\* Read: "Set default limit if not provided"
ResultsLimit(cfg) == IF IsNull(cfg.limit) THEN 10 ELSE cfg.limit.v

\* Read: the configuration completed with the instance id and the results
ResultsRead(cfg, rs, t) ==
    [cfg EXCEPT !.id = Val("results-" \o cfg.check_id.v \o "-" \o ToString(Unix(t))),
                !.results = rs]

\* checkResultsDataSource.Read, given the client's answer r = [err, panic,
\* results], with time.Now() = t.  A panic ends the provider process: the
\* handler returns nothing, which Terraform reports as a failure.
CheckResultsRead(cfg, r, t) ==
    LET sent == [check_id |-> cfg.check_id.v, limit |-> ResultsLimit(cfg)]
    IN  IF r.err \/ r.panic
        THEN [err |-> TRUE, set |-> FALSE, rec |-> cfg, sent |-> sent]
        ELSE [err |-> FALSE, set |-> TRUE,
              rec |-> ResultsRead(cfg, r.results, t), sent |-> sent]

-----------------------------------------------------------------------------
(* The inputs: plans, fetched records, import identifiers *)

\* The optional attributes of each schema, in schema order
OptFields(kind) ==
    IF kind = "http"
    THEN <<"method", "headers", "body", "expected_status", "expected_response",
           "interval", "timeout", "follow_redirects", "regions", "retries">>
    ELSE <<"method", "headers", "body", "expected_status", "response_validation",
           "interval", "timeout", "auth_type", "auth_value">>

OptIndex(kind, f) == CHOOSE i \in 1..Len(OptFields(kind)) : OptFields(kind)[i] = f

IsOpt(kind, f) == \E i \in 1..Len(OptFields(kind)) : OptFields(kind)[i] = f

\* How a plan or a fetched record fills the optional attributes: all unset, all
\* explicitly empty, all set, or alternately unset and set
Profiles == {"unset", "empty", "value", "mixA", "mixB"}

Mode(profile, i) ==
    CASE profile = "mixA" -> IF i % 2 = 1 THEN "value" ELSE "unset"
      [] profile = "mixB" -> IF i % 2 = 1 THEN "unset" ELSE "value"
      [] OTHER -> profile

\* The value of attribute f in mode m; tag tells a plan's values ("p") from a
\* fetched record's ("f")
FieldValue(f, m, tag) ==
    LET n == IF tag = "p" THEN 1 ELSE 2
    IN  CASE f \in {"expected_status", "interval", "timeout", "retries"} ->
               IF m = "unset" THEN IntNull
               ELSE IF m = "empty" THEN Val(0)
               ELSE Val(n + (CASE f = "expected_status" -> 200
                               [] f = "interval" -> 60
                               [] f = "timeout" -> 5
                               [] OTHER -> 2))
          [] f = "follow_redirects" ->
               IF m = "unset" THEN BoolNull
               ELSE IF m = "empty" THEN Val(FALSE) ELSE Val(TRUE)
          [] f \in {"regions", "response_validation"} ->
               IF m = "unset" THEN ListNull
               ELSE IF m = "empty" THEN Val(<<>>) ELSE Val(<<f \o "-" \o tag>>)
          [] f = "headers" ->
               IF m = "unset" THEN MapNull
               ELSE IF m = "empty" THEN Val({}) ELSE Val({<<"Accept", tag>>})
          [] OTHER ->
               IF m = "unset" THEN StrNull
               ELSE IF m = "empty" THEN Val("") ELSE Val(f \o "-" \o tag)

\* A record of the kind with its optional attributes filled by the profile
Declared(kind, profile, tag) ==
    [f \in DOMAIN Zero(kind) |->
        IF IsOpt(kind, f)
        THEN FieldValue(f, Mode(profile, OptIndex(kind, f)), tag)
        ELSE Zero(kind)[f]]

WithAddr(kind, rec, a) ==
    IF kind = "http" THEN [rec EXCEPT !.url = a] ELSE [rec EXCEPT !.endpoint = a]

Addr(kind, rec) == IF kind = "http" THEN rec.url ELSE rec.endpoint

PlanAddrs == {Val(AddrSeq[i]) : i \in 1..Len(AddrSeq)}

\* id and last_result are computed: unknown in a plan (last_result has no plan
\* modifier), or whatever a caller hands in
PlanComputed == {<<StrUnknown, StrUnknown>>, <<Val("hc-0000000000000000"), Val("FAILURE")>>}

PlanRecord(kind, prof, nm, a, c) ==
    WithAddr(kind,
             [Declared(kind, prof, "p") EXCEPT
                  !.id = c[1], !.name = nm,
                  !.last_result = c[2], !.last_check_time = StrUnknown],
             a)

\* The plans req.Plan.Get can yield: a named check with its optional attributes
\* filled by any profile, and a check with no name or an empty name
PlansOf ==
    [kind \in {"http", "api"} |->
        { PlanRecord(kind, prof, Val(NameSeq[i]), a, c) :
            prof \in Profiles, i \in 1..Len(NameSeq), a \in PlanAddrs,
            c \in PlanComputed }
        \cup
        { PlanRecord(kind, "value", nm, a, <<StrUnknown, StrUnknown>>) :
            nm \in {StrNull, Val("")}, a \in PlanAddrs }]

Plans(kind) == PlansOf[kind]

\* What a backend can report besides the optional attributes: nothing; its
\* identity, a drifted name and address, and a result; a result without a time.
\* "$id" stands for the identity the read asked for.
FetchedRest ==
    {<<StrNull, StrNull, StrNull, StrNull, StrNull>>,
     <<Val("$id"), Val("Drifted"), Val("https://y"), Val("SUCCESS"),
       Val("2024-05-01T10:00:00Z")>>,
     <<Val("$id"), StrNull, StrNull, Val("FAILURE"), StrNull>>}

FetchedOf ==
    [kind \in {"http", "api"} |->
        { WithAddr(kind,
                   [Declared(kind, prof, "f") EXCEPT
                        !.id = x[1], !.name = x[2],
                        !.last_result = x[4], !.last_check_time = x[5]],
                   x[3]) :
            prof \in Profiles, x \in FetchedRest }]

\* The records a backend can answer a read of identity id with: the record's
\* own identity is id, or is not reported
Fetched(kind, id) ==
    {[c EXCEPT !.id = IF IsNull(@) THEN @ ELSE Val(id)] : c \in FetchedOf[kind]}

\* The identifiers `terraform import` can be given
ImportIDs == {"", "hc-1111111111111111"}

\* The limits a check_results configuration can have: none, and integers
\* from below zero up to MaxLimit
Limits == {IntNull, Val(-1), Val(0), Val(MaxLimit)}

\* The check_results configurations req.Config.Get can yield for the checks ids
DataConfigs(ids) ==
    {[ZeroCheckResults EXCEPT !.check_id = Val(id), !.limit = l] :
        id \in ids, l \in Limits}

-----------------------------------------------------------------------------
(* The client's answers.  Spec runs the handlers against the provider's own  *)
(* client; SpecAdapter runs them against any backend of the same interface:  *)
(* one that may fail, may write into the draft, and may answer a read with   *)
(* any record.                                                               *)

NoState(kind) == [exists |-> FALSE, rec |-> Zero(kind)]

ClientCreate(kind, draft, t) ==
    IF kind = "http" THEN createHTTPCheck(draft, t) ELSE createAPICheck(draft, t)

ClientRead(kind, id, t) ==
    IF kind = "http" THEN readHTTPCheck(id, t) ELSE readAPICheck(id, t)

ClientUpdate(kind, record) ==
    IF kind = "http" THEN updateHTTPCheck(record) ELSE updateAPICheck(record)

ClientDelete(kind, id) ==
    IF kind = "http" THEN deleteHTTPCheck(id) ELSE deleteAPICheck(id)

\* A backend's create: the client's answer, a failure, or the client's answer
\* with defaults and computed values written into the draft as well
AdapterCreate(kind, draft, t) ==
    LET r == ClientCreate(kind, draft, t)
    IN  {r, [err |-> TRUE, check |-> draft]} \cup
        (IF r.err THEN {}
         ELSE {[err |-> FALSE,
                check |-> [r.check EXCEPT !.method = Val("GET"),
                                          !.body = Val(""),
                                          !.last_result = Val("SUCCESS"),
                                          !.last_check_time = Val("backend")]]})

\* A backend's read: a failure, or (for a non-empty identity) any record
AdapterRead(kind, id) ==
    {[err |-> TRUE, check |-> Zero(kind)]} \cup
    (IF id = "" THEN {}
     ELSE {[err |-> FALSE, check |-> c] : c \in Fetched(kind, id)})

-----------------------------------------------------------------------------
(* The handlers as steps *)

Draft(kind, plan) == IF kind = "http" THEN HTTPDraft(plan) ELSE APIDraft(plan)

CreateOutcome(kind, plan, r, t) ==
    IF kind = "http" THEN HTTPCreate(plan, r, t) ELSE APICreate(plan, r, t)

ReadOutcome(kind, state, r) ==
    IF kind = "http" THEN HTTPRead(state, r) ELSE APIRead(state, r)

UpdateRecord(kind, plan, state) ==
    IF kind = "http" THEN HTTPUpdateRecord(plan, state)
    ELSE APIUpdateRecord(plan, state)

UpdateOutcome(kind, plan, state, failed, t) ==
    IF kind = "http" THEN HTTPUpdate(plan, state, failed, t)
    ELSE APIUpdate(plan, state, failed, t)

DeleteOutcome(kind, state, failed) ==
    IF kind = "http" THEN HTTPDelete(state, failed) ELSE APIDelete(state, failed)

\* What Terraform persists after a handler returns: the state the handler set;
\* nothing for a Delete that reported no error; else what it had
Persisted(kind, op, prior, out) ==
    IF out.set THEN [exists |-> TRUE, rec |-> out.rec]
    ELSE IF op = "Delete" /\ ~out.err THEN NoState(kind)
    ELSE prior

Init ==
    /\ tfstate = [r \in Resources |-> NoState(Kind(r))]
    /\ now = 0
    /\ nops = 0
    /\ created = [r \in Resources |-> [ok |-> FALSE, id |-> ""]]
    /\ config = [r \in Resources |-> NoState(Kind(r))]
    /\ results = NoResults
    /\ last = [op |-> "Init", res |-> "http_check", err |-> FALSE,
               prior |-> NoState("http"), input |-> ZeroHTTPCheck,
               got |-> ZeroHTTPCheck, sent |-> ZeroHTTPCheck,
               repeat |-> FALSE, t |-> 0]

\* The record of a handler invocation
Invocation(op, r, prior, input, got, out, rpt, t) ==
    [op |-> op, res |-> r, err |-> out.err, prior |-> prior, input |-> input,
     got |-> got, sent |-> out.sent, repeat |-> rpt, t |-> t]

\* Create of resource r with client answer ans, at clock reading t
CreateWith(r, plan, ans, t) ==
    LET out == CreateOutcome(Kind(r), plan, ans, t)
    IN  /\ tfstate' = [tfstate EXCEPT ![r] = Persisted(Kind(r), "Create", @, out)]
        /\ created' = [created EXCEPT ![r] =
                          IF out.err THEN @ ELSE [ok |-> TRUE, id |-> ans.check.id.v]]
        /\ config' = [config EXCEPT ![r] =
                         IF out.err THEN @
                         ELSE [exists |-> TRUE, rec |-> Draft(Kind(r), plan)]]
        /\ last' = Invocation("Create", r, tfstate[r], plan, ans.check, out, FALSE, t)
        /\ nops' = nops + 1
        /\ UNCHANGED <<now, results>>

Create(r) ==
    /\ nops < MaxOps
    /\ ~tfstate[r].exists
    /\ \E plan \in Plans(Kind(r)) :
          CreateWith(r, plan, ClientCreate(Kind(r), Draft(Kind(r), plan), now), now)

CreateAdapter(r) ==
    /\ nops < MaxOps
    /\ ~tfstate[r].exists
    /\ \E plan \in Plans(Kind(r)) :
          \E ans \in AdapterCreate(Kind(r), Draft(Kind(r), plan), now) :
              CreateWith(r, plan, ans, now)

\* Read of resource r with client answer ans
ReadWith(r, ans) ==
    LET out == ReadOutcome(Kind(r), tfstate[r].rec, ans)
        rpt == /\ last.op = "Read" /\ last.res = r /\ ~last.err /\ ~ans.err
               /\ last.input = ans.check
    IN  /\ tfstate' = [tfstate EXCEPT ![r] = Persisted(Kind(r), "Read", @, out)]
        /\ last' = Invocation("Read", r, tfstate[r], ans.check, ans.check, out, rpt, now)
        /\ nops' = nops + 1
        /\ UNCHANGED <<now, created, config, results>>

Read(r) ==
    /\ nops < MaxOps
    /\ tfstate[r].exists
    /\ ReadWith(r, ClientRead(Kind(r), tfstate[r].rec.id.v, now))

ReadAdapter(r) ==
    /\ nops < MaxOps
    /\ tfstate[r].exists
    /\ \E ans \in AdapterRead(Kind(r), tfstate[r].rec.id.v) : ReadWith(r, ans)

\* UpdateWith on a state shared by the resources: the other one is dropped
UpdateWith_Shared(r, plan, failed) ==
    LET out == UpdateOutcome(Kind(r), plan, tfstate[r].rec, failed, now)
    IN  /\ tfstate' = [x \in Resources |->
                          IF x = r THEN Persisted(Kind(r), "Update", tfstate[r], out)
                          ELSE NoState(Kind(x))]
        /\ config' = [config EXCEPT ![r] =
                         IF out.err THEN @
                         ELSE [exists |-> TRUE, rec |-> Draft(Kind(r), plan)]]
        /\ last' = Invocation("Update", r, tfstate[r], plan, out.sent, out, FALSE, now)
        /\ nops' = nops + 1
        /\ UNCHANGED <<now, created, results>>

\* Update of resource r; failed: the client's update returned an error
UpdateWith(r, plan, failed) ==
    LET out == UpdateOutcome(Kind(r), plan, tfstate[r].rec, failed, now)
    IN  /\ tfstate' = [tfstate EXCEPT ![r] = Persisted(Kind(r), "Update", @, out)]
        /\ config' = [config EXCEPT ![r] =
                         IF out.err THEN @
                         ELSE [exists |-> TRUE, rec |-> Draft(Kind(r), plan)]]
        /\ last' = Invocation("Update", r, tfstate[r], plan, out.sent, out, FALSE, now)
        /\ nops' = nops + 1
        /\ UNCHANGED <<now, created, results>>

Update(r) ==
    /\ nops < MaxOps
    /\ tfstate[r].exists
    /\ \E plan \in Plans(Kind(r)) :
          UpdateWith(r, plan,
                     ClientUpdate(Kind(r), UpdateRecord(Kind(r), plan, tfstate[r].rec)))

UpdateAdapter(r) ==
    /\ nops < MaxOps
    /\ tfstate[r].exists
    /\ \E plan \in Plans(Kind(r)) :
          \E failed \in {TRUE, ClientUpdate(Kind(r),
                                UpdateRecord(Kind(r), plan, tfstate[r].rec))} :
              UpdateWith(r, plan, failed)

\* Delete of resource r; failed: the client's delete returned an error
DeleteWith(r, failed) ==
    LET out == DeleteOutcome(Kind(r), tfstate[r].rec, failed)
    IN  /\ tfstate' = [tfstate EXCEPT ![r] = Persisted(Kind(r), "Delete", @, out)]
        /\ created' = [created EXCEPT ![r] =
                          IF out.err THEN @ ELSE [ok |-> FALSE, id |-> ""]]
        /\ config' = [config EXCEPT ![r] = IF out.err THEN @ ELSE NoState(Kind(r))]
        /\ last' = Invocation("Delete", r, tfstate[r], tfstate[r].rec,
                              tfstate[r].rec, out, FALSE, now)
        /\ nops' = nops + 1
        /\ UNCHANGED <<now, results>>

Delete(r) ==
    /\ nops < MaxOps
    /\ tfstate[r].exists
    /\ DeleteWith(r, ClientDelete(Kind(r), tfstate[r].rec.id.v))

DeleteAdapter(r) ==
    /\ nops < MaxOps
    /\ tfstate[r].exists
    /\ \E failed \in {TRUE, ClientDelete(Kind(r), tfstate[r].rec.id.v)} :
          DeleteWith(r, failed)

\* ImportState of resource r: the state handed to the Read that follows
ImportState(r) ==
    /\ nops < MaxOps
    /\ ~tfstate[r].exists
    /\ \E id \in ImportIDs :
          LET rec == ImportedState(Kind(r), id)
              out == [err |-> FALSE, set |-> TRUE, rec |-> rec, sent |-> rec]
          IN  /\ tfstate' = [tfstate EXCEPT ![r] = Persisted(Kind(r), "ImportState", @, out)]
              /\ last' = Invocation("ImportState", r, tfstate[r], rec, rec, out, FALSE, now)
    /\ nops' = nops + 1
    /\ UNCHANGED <<now, created, config, results>>

\* The identities a check_results configuration can refer to: none, one that
\* is no resource of this configuration, and those of the persisted checks
CheckIDs ==
    {"", "chk-1"} \cup {tfstate[r].rec.id.v : r \in {x \in Resources : tfstate[x].exists}}

\* Read of the check_results data source
DataRead ==
    /\ nops < MaxOps
    /\ \E cfg \in DataConfigs(CheckIDs) :
          LET ans == getCheckResults(cfg.check_id.v, ResultsLimit(cfg), now)
              out == CheckResultsRead(cfg, ans, now)
          IN  /\ results' = Persisted("results", "DataRead", results, out)
              /\ last' = Invocation("DataRead", "check_results", results, cfg,
                                    ans, out, FALSE, now)
    /\ nops' = nops + 1
    /\ UNCHANGED <<tfstate, now, created, config>>

\* Time passes before an invocation
Tick ==
    /\ nops < MaxOps
    /\ now < MaxTime
    /\ now' = now + 1
    /\ UNCHANGED <<tfstate, nops, last, created, config, results>>

Next ==
    \/ \E r \in Resources : Create(r)
    \/ \E r \in Resources : Read(r)
    \/ \E r \in Resources : Update(r)
    \/ \E r \in Resources : Delete(r)
    \/ \E r \in Resources : ImportState(r)
    \/ Tick

Spec == Init /\ [][Next]_vars

NextAdapter ==
    \/ \E r \in Resources : CreateAdapter(r)
    \/ \E r \in Resources : ReadAdapter(r)
    \/ \E r \in Resources : UpdateAdapter(r)
    \/ \E r \in Resources : DeleteAdapter(r)
    \/ \E r \in Resources : ImportState(r)
    \/ Tick

SpecAdapter == Init /\ [][NextAdapter]_vars

\* The data source, against the provider's own client, beside checks that
\* are created and deleted
NextResults ==
    \/ \E r \in Resources : Create(r)
    \/ \E r \in Resources : Delete(r)
    \/ DataRead
    \/ Tick

SpecResults == Init /\ [][NextResults]_vars

-----------------------------------------------------------------------------
(* The claims.  last is the invocation that produced the current state:     *)
(* last.prior is the persisted state it started from, last.input its plan   *)
(* (Create, Update) or the fetched record (Read).                           *)

LastKind == Kind(last.res)

\* The persisted state of the resource, or of the data source, the last
\* invocation was about
Cur == IF last.res = "check_results" THEN results ELSE tfstate[last.res]

Succeeded(op) == last.op = op /\ ~last.err

OptSet(kind) == {OptFields(kind)[i] : i \in 1..Len(OptFields(kind))}

AddrField(kind) == IF kind = "http" THEN "url" ELSE "endpoint"

\* The attributes the user declares
DeclaredSet(kind) == {"name", AddrField(kind)} \cup OptSet(kind)

\* C1: an optional field the plan leaves unset is unset in the state a
\* successful Create persists, and a field unset in the persisted state is
\* still unset after a Read whose fetched record has it unset.
C1_NullPreservation ==
    /\ Succeeded("Create") =>
          /\ Cur.exists
          /\ \A f \in OptSet(LastKind) : IsNull(last.input[f]) => IsNull(Cur.rec[f])
    /\ Succeeded("Read") =>
          \A f \in OptSet(LastKind) :
              (IsNull(last.prior.rec[f]) /\ IsNull(last.input[f])) => IsNull(Cur.rec[f])

\* A created check is read, and some optional field is unset both in the
\* state the Read started from and in the fetched record.
C1_Witness ==
    /\ Succeeded("Read") /\ created[last.res].ok
    /\ \E f \in OptSet(LastKind) : IsNull(last.prior.rec[f]) /\ IsNull(last.input[f])
    /\ \E f \in OptSet(LastKind) : IsNull(last.prior.rec[f]) /\ ~IsNull(last.input[f])

\* C2: after a successful Read every declared non-sensitive field holds the
\* fetched value if the fetched record has one, and the prior persisted value
\* if it has none.
C2_DriftOverwrite ==
    Succeeded("Read") =>
        \A f \in DeclaredSet(LastKind) \ {"auth_value"} :
            Cur.rec[f] = IF ~IsNull(last.input[f]) THEN last.input[f]
                         ELSE last.prior.rec[f]

\* A Read where one field set in the prior state is fetched with another
\* value, and another field set in the prior state is fetched unset.
C2_Witness ==
    /\ Succeeded("Read")
    /\ \E f \in DeclaredSet(LastKind) \ {"auth_value"} :
          /\ ~IsNull(last.prior.rec[f]) /\ ~IsNull(last.input[f])
          /\ last.prior.rec[f] # last.input[f]
    /\ \E f \in OptSet(LastKind) \ {"auth_value"} :
          ~IsNull(last.prior.rec[f]) /\ IsNull(last.input[f])

\* C3: a Read of an API check replaces the persisted auth_value by the fetched
\* one exactly when the persisted one is unset and the fetched one is set; a
\* persisted auth_value that holds a value is left as it is.
C3_SensitiveNonClobber ==
    (Succeeded("Read") /\ LastKind = "api") =>
        Cur.rec.auth_value =
            IF IsNull(last.prior.rec.auth_value) /\ ~IsNull(last.input.auth_value)
            THEN last.input.auth_value
            ELSE last.prior.rec.auth_value

\* A Read of an API check whose persisted auth_value holds a value, answered
\* with another value for it.
C3_Witness ==
    /\ Succeeded("Read") /\ LastKind = "api"
    /\ ~IsNull(last.prior.rec.auth_value) /\ ~IsNull(last.input.auth_value)
    /\ last.prior.rec.auth_value # last.input.auth_value

C5_UpdateIdentity ==
    last.op = "Update" =>
        /\ last.sent.id = last.prior.rec.id
        /\ ~last.err => Cur.rec.id = last.prior.rec.id

\* A successful Update whose plan names another identity.
C5_Witness ==
    /\ Succeeded("Update")
    /\ ~IsNull(last.input.id) /\ last.input.id.st = "known"
    /\ last.input.id # last.prior.rec.id

\* C6: when a Create, Read, Update or Delete reports an error, the persisted
\* state of the resource is what it was before.
C6_ErrorLeavesState ==
    last.err => Cur = last.prior

\* An Update of an existing check fails, with a record that differs from the
\* persisted state.
C6_Witness ==
    /\ last.op = "Update" /\ last.err /\ last.prior.exists
    /\ last.sent # last.prior.rec

\* C7: after a successful Update the persisted last_result is the prior
\* state's and last_check_time is the current time.
C7_UpdateKeepsLastResult ==
    Succeeded("Update") =>
        /\ Cur.rec.last_result = last.prior.rec.last_result
        /\ Cur.rec.last_check_time = Val(RFC3339(last.t))

\* C8: a Read answered with the same record as the successful Read before it
\* leaves the persisted state as that Read left it.
C8_IdempotentReread ==
    (Succeeded("Read") /\ last.repeat) => Cur = last.prior

\* A second Read in a row with the same answer, of a check whose fetched
\* record sets some optional fields and leaves others unset.
C8_Witness ==
    /\ Succeeded("Read") /\ last.repeat
    /\ \E f \in OptSet(LastKind) : ~IsNull(last.input[f])
    /\ \E f \in OptSet(LastKind) : IsNull(last.input[f]) /\ ~IsNull(Cur.rec[f])

\* C9: a successful Create persists every declared field as the plan has it,
\* the identity the client assigned, last_result "PENDING" and the current
\* time; nothing else the client wrote into the draft is persisted.
C9_CreateResult ==
    Succeeded("Create") =>
        /\ Cur.exists
        /\ \A f \in DeclaredSet(LastKind) : Cur.rec[f] = last.input[f]
        /\ Cur.rec.id = last.got.id
        /\ ~IsNull(Cur.rec.id) /\ Cur.rec.id.v # ""
        /\ Cur.rec.last_result = Val("PENDING")
        /\ Cur.rec.last_check_time = Val(RFC3339(last.t))

\* A successful Create of a plan with explicitly empty fields, where the
\* client wrote a method and a result into the draft.
C9_Witness ==
    /\ Succeeded("Create")
    /\ last.input.body = Val("") /\ last.input.method = Val("")
    /\ last.got.method = Val("GET") /\ last.got.last_result = Val("SUCCESS")

\* C10: after a successful Read the persisted last_result and last_check_time
\* are the fetched record's, also when those are unset.
C10_ReadOverwritesComputed ==
    Succeeded("Read") =>
        /\ Cur.rec.last_result = last.input.last_result
        /\ Cur.rec.last_check_time = last.input.last_check_time

\* A Read whose fetched record has no last_result, of a check that had one.
C10_Witness ==
    /\ Succeeded("Read")
    /\ IsNull(last.input.last_result) /\ ~IsNull(last.prior.rec.last_result)
    /\ IsNull(last.input.last_check_time) /\ ~IsNull(last.prior.rec.last_check_time)

\* C11: a successful Update persists the plan as a whole: every declared
\* field, auth_value included, is the plan's (unset where the plan has it
\* unset), and of the prior state only the identity is kept.
C11_UpdateFullReplace ==
    Succeeded("Update") =>
        /\ \A f \in DeclaredSet(LastKind) : Cur.rec[f] = last.input[f]
        /\ Cur.rec = [last.input EXCEPT !.id = last.prior.rec.id,
                                        !.last_check_time = Val(RFC3339(last.t))]

\* A successful Update whose plan leaves unset a field the prior state had
\* set, and changes another.
C11_Witness ==
    /\ Succeeded("Update")
    /\ \E f \in OptSet(LastKind) : ~IsNull(last.prior.rec[f]) /\ IsNull(last.input[f])
    /\ \E f \in OptSet(LastKind) :
          /\ ~IsNull(last.prior.rec[f]) /\ ~IsNull(last.input[f])
          /\ last.prior.rec[f] # last.input[f]

\* C12: with the provider's own client, in every state reached by Creates,
\* Updates and Reads, an optional field the applied configuration leaves unset
\* is unset in the persisted state, and every declared field of the persisted
\* state is the configuration's.
C12_UnsetStaysNull ==
    \A r \in Resources :
        (config[r].exists /\ tfstate[r].exists) =>
            /\ \A f \in OptSet(Kind(r)) :
                  IsNull(config[r].rec[f]) => IsNull(tfstate[r].rec[f])
            /\ \A f \in DeclaredSet(Kind(r)) : tfstate[r].rec[f] = config[r].rec[f]

\* C13: a Create whose plan has no name, or the empty name, reports an error;
\* the client assigns no identity and no state is persisted for the resource,
\* for HTTP checks and for API checks.
C13_CreateRejectsMissingName ==
    (last.op = "Create" /\ (IsNull(last.input.name) \/ last.input.name.v = "")) =>
        /\ last.err
        /\ IsNull(last.got.id)
        /\ ~Cur.exists /\ Cur = last.prior
        /\ ~created[last.res].ok

\* A Create with the empty name was attempted while the other check exists.
C13_Witness ==
    /\ last.op = "Create" /\ last.input.name = Val("")
    /\ \E r \in Resources : r # last.res /\ tfstate[r].exists

\* C14: the client's read, update, delete and results query return an error
\* for the empty identity (update also for an unset one), for both kinds; and
\* a Read, Update or Delete of a check with the empty identity reports an
\* error and leaves the persisted state as it was.
C14_EmptyIdentityRejected ==
    /\ \A kind \in {"http", "api"} :
          /\ ClientRead(kind, "", now).err
          /\ ClientDelete(kind, "")
          /\ \A p \in Plans(kind) :
                /\ ClientUpdate(kind, [p EXCEPT !.id = Val("")])
                /\ ClientUpdate(kind, [p EXCEPT !.id = StrNull])
    /\ \A l \in Limits : getCheckResults("", ResultsLimit([limit |-> l]), now).err
    /\ (last.op \in {"Read", "Update", "Delete"} /\ last.prior.rec.id.v = "") =>
          last.err /\ Cur = last.prior

\* An API check imported with the empty identity was updated with a named
\* plan.
C14_Witness ==
    /\ last.op = "Update" /\ last.res = "api_check"
    /\ last.prior.exists /\ last.prior.rec.id = Val("")
    /\ last.input.name = Val("Site")

\* C15: an Update whose record has no name, or the empty name, reports an
\* error, also when the record's identity is not empty.
C15_UpdateRejectsMissingName ==
    (last.op = "Update" /\ (IsNull(last.sent.name) \/ last.sent.name.v = "")) =>
        last.err

\* The count a results query asks the synthesizer for
AskedCount == IF IsNull(last.input.limit) THEN 10 ELSE last.input.limit.v

\* C16: a results query of a non-empty identity with a count >= 0 succeeds and
\* persists exactly count records, the k-th of them built for index k - 1; the
\* count is 10 when the configuration has no limit.
C16_ResultCount ==
    (last.op = "DataRead" /\ last.input.check_id.v # "" /\ AskedCount >= 0) =>
        /\ ~last.err
        /\ last.sent.limit = AskedCount
        /\ Len(last.got.results) = AskedCount
        /\ Cur.rec.results = last.got.results
        /\ \A k \in 1..AskedCount :
              Cur.rec.results[k].id =
                  Val("res-" \o last.input.check_id.v \o "-" \o ToString(k - 1))

\* A query without a limit returned ten records, after a query with limit 0
\* had returned none.
C16_Witness ==
    /\ Succeeded("DataRead") /\ IsNull(last.input.limit)
    /\ Len(Cur.rec.results) = 10
    /\ last.prior.exists /\ last.prior.rec.limit = Val(0)
    /\ last.prior.rec.results = <<>>

\* C17: in the results of a successful query, the record of index i is a
\* FAILURE with response time 500 + 20 * i when i is a multiple of 3, and a
\* SUCCESS with response time 100 + 10 * i otherwise; so every status is
\* SUCCESS or FAILURE and no response time is negative.
C17_StatusAndResponseTime ==
    Succeeded("DataRead") =>
        \A k \in 1..Len(Cur.rec.results) :
            LET i == k - 1
                r == Cur.rec.results[k]
            IN  /\ (i % 3 = 0) =>
                      r.status = Val("FAILURE") /\ r.response_time = Val(500 + 20 * i)
                /\ (i % 3 # 0) =>
                      r.status = Val("SUCCESS") /\ r.response_time = Val(100 + 10 * i)
                /\ r.status.v \in {"SUCCESS", "FAILURE"}
                /\ r.response_time.st = "known" /\ r.response_time.v >= 0

\* A query returned records up to index 3, the second failure.
C17_Witness ==
    /\ Succeeded("DataRead") /\ Len(Cur.rec.results) >= 4
    /\ Cur.rec.results[4].status = Val("FAILURE")
    /\ Cur.rec.results[4].response_time = Val(560)
    /\ Cur.rec.results[3].status = Val("SUCCESS")
    /\ Cur.rec.results[3].response_time = Val(120)

\* The last invocation is a successful results query that follows a
\* successful query of the same identity with the same limit
RepeatedQuery ==
    /\ Succeeded("DataRead") /\ last.prior.exists
    /\ last.prior.rec.check_id = last.input.check_id
    /\ last.prior.rec.limit = last.input.limit

\* C18 as stated: two results queries with the same identity and count return
\* the same sequence, field for field, timestamps included.
C18_Determinism ==
    RepeatedQuery => Cur.rec.results = last.prior.rec.results

\* C18 amended: two results queries with the same identity and count return
\* sequences that agree in every field but the timestamp, and in the timestamp
\* too when both were made within the same second of the clock (the data
\* source then has the same instance id).
C18_DeterminismUpToTime ==
    RepeatedQuery =>
        /\ Len(Cur.rec.results) = Len(last.prior.rec.results)
        /\ \A k \in 1..Len(Cur.rec.results) :
              [Cur.rec.results[k] EXCEPT !.timestamp = StrNull] =
                  [last.prior.rec.results[k] EXCEPT !.timestamp = StrNull]
        /\ (Cur.rec.id = last.prior.rec.id) =>
              Cur.rec.results = last.prior.rec.results

\* The same query was made twice, a second apart, and returned records.
C18_Witness ==
    /\ RepeatedQuery
    /\ Cur.rec.id # last.prior.rec.id
    /\ Len(Cur.rec.results) >= 2
    /\ Cur.rec.results[2].timestamp # last.prior.rec.results[2].timestamp

\* The shape of the records a successful results query persists
ResultShape ==
    Succeeded("DataRead") =>
        /\ \A k \in 1..Len(Cur.rec.results) :
              LET r == Cur.rec.results[k]
              IN  /\ r.check_id = Val(last.input.check_id.v)
                  /\ r.id = Val("res-" \o last.input.check_id.v \o "-" \o ToString(k - 1))
                  /\ IsNull(r.region) /\ IsNull(r.response_body)
                  /\ IsNull(r.response_code) /\ IsNull(r.failure_reason)
        /\ \A j, k \in 1..Len(Cur.rec.results) :
              j # k => Cur.rec.results[j].id # Cur.rec.results[k].id

\* C19: every record of a results query has the queried identity as check_id,
\* "res-<check identity>-<i>" as its own identity (so the identities of one
\* sequence are pairwise distinct) and region, response body, response code
\* and failure reason unset; and a results query leaves the persisted state of
\* every resource as it was.
C19_ResultShape ==
    /\ []ResultShape
    /\ [][last'.op = "DataRead" => tfstate' = tfstate]_vars

\* The results of a persisted check were queried by its identity.
C19_Witness ==
    /\ Succeeded("DataRead") /\ Len(Cur.rec.results) >= 2
    /\ \E r \in Resources :
          /\ tfstate[r].exists /\ created[r].ok
          /\ last.input.check_id = tfstate[r].rec.id

HexChars ==
    {"0", "1", "2", "3", "4", "5", "6", "7", "8", "9", "a", "b", "c", "d", "e", "f"}

\* s is n lowercase hexadecimal characters
IsHex(s, n) == Len(s) = n /\ \A k \in 1..n : SubSeq(s, k, k) \in HexChars

\* The kind tag of the identities of a resource
Tag(r) == IF r = "http_check" THEN "hc" ELSE "ac"

\* C20: the identity a Create assigns is the kind tag ("hc" for an HTTP check,
\* "ac" for an API check), "-" and exactly 16 lowercase hexadecimal characters,
\* two for each of the digest's first 8 bytes whatever their values; it is the
\* same for every plan with the same name and address created at the same
\* time; and the identity of an HTTP check is never that of an API check.
C20_IdentityFormat ==
    /\ Succeeded("Create") =>
          LET id == Cur.rec.id.v
          IN  /\ Len(id) = 19
              /\ SubSeq(id, 1, 3) = Tag(last.res) \o "-"
              /\ IsHex(SubSeq(id, 4, 19), 16)
              /\ \A b \in 0..255 : IsHex(HexByte(b), 2)
              /\ \A p \in Plans(LastKind) :
                    (p.name = last.input.name
                        /\ Addr(LastKind, p) = Addr(LastKind, last.input)) =>
                    ClientCreate(LastKind, Draft(LastKind, p), last.t).check.id
                        = Cur.rec.id
    /\ (created["http_check"].ok /\ created["api_check"].ok) =>
          created["http_check"].id # created["api_check"].id

\* Both checks were created, at the same time and from plans with the same
\* name and address but different optional fields.
C20_Witness ==
    /\ Succeeded("Create")
    /\ created["http_check"].ok /\ created["api_check"].ok
    /\ SubSeq(created["http_check"].id, 4, 19) = SubSeq(created["api_check"].id, 4, 19)
    /\ tfstate["http_check"].rec.method # tfstate["api_check"].rec.method

\* The clock readings of the model
Times == 0..MaxTime

\* C21: the identity a Create assigns is determined by the kind, the name and
\* the address: a Create of the same plan performed at any other time is
\* assigned the same identity.
C21_IdentityByNameAndAddress ==
    Succeeded("Create") =>
        \A t \in Times :
            ClientCreate(LastKind, Draft(LastKind, last.input), t).check.id = Cur.rec.id

\* What a Delete leaves behind
DeleteOutcomes ==
    /\ Succeeded("Delete") => ~Cur.exists /\ Cur = NoState(LastKind)
    /\ (last.op = "Delete" /\ last.err) => Cur.exists /\ Cur = last.prior

\* C22: a Delete whose backend call succeeds leaves no record of the resource,
\* not even a partial one; a Delete whose backend call fails leaves the record
\* present and as it was; and a resource without persisted state gets one
\* again only from a Create (or an import), never from a Read or an Update.
C22_DeleteLifecycle ==
    /\ []DeleteOutcomes
    /\ [][\A r \in Resources :
            (~tfstate[r].exists /\ tfstate'[r].exists) =>
                last'.res = r /\ last'.op \in {"Create", "ImportState"}]_vars

\* A check with a non-empty identity and a result was deleted; no check is
\* left in state.
C22_Witness ==
    /\ Succeeded("Delete") /\ last.prior.exists
    /\ last.prior.rec.id.v # "" /\ ~IsNull(last.prior.rec.last_result)
    /\ tfstate = [r \in Resources |-> NoState(Kind(r))]

\* C23: while a created resource is in state, whatever successful Reads and
\* Updates came since its Create, its name is set and not empty and its address
\* (url or endpoint) is set.
C23_RequiredNeverUnset ==
    \A r \in Resources :
        (created[r].ok /\ tfstate[r].exists) =>
            /\ tfstate[r].rec.name.st = "known" /\ tfstate[r].rec.name.v # ""
            /\ ~IsNull(Addr(Kind(r), tfstate[r].rec))

\* What the handler op of a resource of the kind makes of the persisted state
\* prior, given its input and the clock reading t, with the provider's client
OwnResult(kind, op, prior, input, t) ==
    LET out ==
          CASE op = "Create" ->
                 CreateOutcome(kind, input, ClientCreate(kind, Draft(kind, input), t), t)
            [] op = "Read" ->
                 ReadOutcome(kind, prior.rec, ClientRead(kind, prior.rec.id.v, t))
            [] op = "Update" ->
                 UpdateOutcome(kind, input, prior.rec,
                               ClientUpdate(kind, UpdateRecord(kind, input, prior.rec)), t)
            [] op = "Delete" ->
                 DeleteOutcome(kind, prior.rec, ClientDelete(kind, prior.rec.id.v))
            [] OTHER ->
                 [err |-> FALSE, set |-> TRUE, rec |-> input, sent |-> input]
    IN  Persisted(kind, op, prior, out)

C25_UndefaultedDraft ==
    last.op = "Create" =>
        /\ \A f \in DeclaredSet(LastKind) : last.sent[f] = last.input[f]
        /\ \A f \in OptSet(LastKind) : IsNull(last.input[f]) => IsNull(last.sent[f])
        /\ IsNull(last.sent.id)
        /\ IsNull(last.sent.last_result) /\ IsNull(last.sent.last_check_time)

\* A Create of a plan that leaves some optional fields unset and carries
\* values in its identity and last_result.
C25_Witness ==
    /\ Succeeded("Create")
    /\ \E f \in OptSet(LastKind) : IsNull(last.input[f])
    /\ \E f \in OptSet(LastKind) : ~IsNull(last.input[f])
    /\ last.input.id.st = "known" /\ last.input.last_result.st = "known"

\* C26: a results query of a non-empty identity returns, whatever the limit,
\* zero and negative limits included: either an error, or max(limit, 0) records.
C26_QueryReturns ==
    (last.op = "DataRead" /\ last.input.check_id.v # "") =>
        /\ ~last.got.panic
        /\ \/ last.got.err
           \/ Len(last.got.results) = (IF AskedCount > 0 THEN AskedCount ELSE 0)

====
